---- MODULE Spec2Model ----
(***************************************************************************)
(* Model of the Rate_stores backend (Express + SQLite server).             *)
(*                                                                         *)
(* The database tables are sets of rows.  Every SQL statement is one       *)
(* atomic step; a handler that awaits several statements is several        *)
(* steps, so statements of two requests in flight interleave freely.       *)
(* Numbers that travel in a request body or sit in the rating column are   *)
(* carried in tenths (4 is 40, 2.5 is 25), so that a non-integer JSON      *)
(* number is representable.                                                *)
(***************************************************************************)
EXTENDS Integers, Sequences, FiniteSets, TLC

\* ------------------------------------------------------------------ bounds
MaxTime == 1
MaxRatingRows == 2
NumSlots == 2
MaxStores == 1
MaxUsers == 4
MaxRequests == 2

VARIABLES
    users,           \* table users: rows [id, email, role] (an email is a number)
    stores,          \* table stores: rows [id, owner_id] (owner_id 0 is NULL)
    ratings,         \* table ratings
    owner_requests,  \* table owner_requests
    tokens,          \* payloads {id, role} of the credentials jwt.sign issued
    now,             \* CURRENT_TIMESTAMP, in seconds
    slot,            \* the requests in flight, one per slot
    resp,            \* the exchange the last step completed (NoResp: it answered nothing)
    lastWrite        \* per (user, store): the rating of the last write committed

vars == <<users, stores, ratings, owner_requests, tokens, now, slot, resp, lastWrite>>

Slots == 1..NumSlots

\* ------------------------------------------------------------ JSON values
Num(n10) == [type |-> "number", x10 |-> n10, str |-> ""]
Str(t) == [type |-> "string", x10 |-> 0, str |-> t]
Undefined == [type |-> "undefined", x10 |-> 0, str |-> ""]

\* the `rating` bodies the model submits: 0, 2.5, 4, 5, 6 and a missing field
RatingInputs == {Num(0), Num(25), Num(40), Num(50), Num(60), Undefined}

\* JavaScript `v < n` and `v > n`: false when v is undefined (NaN)
JsLess(v, n) == v.type = "number" /\ v.x10 < 10 * n
JsGreater(v, n) == v.type = "number" /\ v.x10 > 10 * n

\* ------------------------------------------------------------ credentials
\* no Authorization header; a token jwt.verify cannot parse or whose signature is wrong;
\* a token issued by jwt.sign, presented within its 8 hours or after them
NoCred == [kind |-> "missing", id |-> 0, role |-> "none"]
BadCred == [kind |-> "invalid", id |-> 0, role |-> "none"]
ExpiredCreds == {[kind |-> "expired", id |-> t.id, role |-> t.role] : t \in tokens}
Creds == {NoCred, BadCred} \cup ExpiredCreds
           \cup {[kind |-> "valid", id |-> t.id, role |-> t.role] : t \in tokens}

\* Variant: a token past its 8 hours still verifies
authenticate_AcceptExpired(cred) ==
    IF cred.kind = "missing" THEN [status |-> 401, msg |-> "Missing token"]
    ELSE IF cred.kind = "invalid" THEN [status |-> 401, msg |-> "Invalid token"]
    ELSE [status |-> 0, msg |-> ""]

\* authenticate: 0 when next() is called, else the status it answers
authenticate(cred) ==
    IF cred.kind = "missing" THEN [status |-> 401, msg |-> "Missing token"]
    ELSE IF cred.kind # "valid" THEN [status |-> 401, msg |-> "Invalid token"]
    ELSE [status |-> 0, msg |-> ""]

\* Variant: every role is let through
requireRole_AnyRole(roles, cred) == [status |-> 0, msg |-> ""]

\* Variant: the role is read from the users table, not from the token
requireRole_StoredRole(roles, cred) ==
    IF \E u \in users : u.id = cred.id /\ u.role \in roles
    THEN [status |-> 0, msg |-> ""]
    ELSE [status |-> 403, msg |-> "Forbidden"]

\* requireRole(...roles): req.user is the payload of the token
requireRole(roles, cred) ==
    IF cred.role \notin roles THEN [status |-> 403, msg |-> "Forbidden"]
    ELSE [status |-> 0, msg |-> ""]

\* ---------------------------------------------------------------- helpers
SetMax(S) == IF S = {} THEN 0 ELSE CHOOSE x \in S : \A y \in S : y <= x

\* INTEGER PRIMARY KEY AUTOINCREMENT (no row is ever deleted)
NextId(rows) == SetMax({r.id : r \in rows}) + 1

Idle == [op |-> "idle", pc |-> "idle", uid |-> 0, role |-> "none",
         arg |-> 0, val |-> Undefined, existing |-> 0, inserted |-> 0, user_id |-> 0,
         counts |-> <<>>]

\* kind is the kind of credential the request carried; uid and role are req.user,
\* which authenticate sets only when the token verifies
NoResp == [op |-> "none", kind |-> "none", uid |-> 0, role |-> "none", arg |-> 0,
           val |-> Undefined, status |-> 0, msg |-> "", body |-> <<>>]

Answer(op, cred, arg, val, status, msg, body) ==
    [op |-> op, kind |-> cred.kind,
     uid |-> IF cred.kind = "valid" THEN cred.id ELSE 0,
     role |-> IF cred.kind = "valid" THEN cred.role ELSE "none",
     arg |-> arg, val |-> val, status |-> status, msg |-> msg, body |-> body]

AnswerSlot(s, status, msg, body) ==
    [op |-> s.op, kind |-> IF s.role = "none" THEN "none" ELSE "valid", uid |-> s.uid, role |-> s.role, arg |-> s.arg,
     val |-> s.val, status |-> status, msg |-> msg, body |-> body]

Busy(p) == slot[p].op # "idle"

\* a request is taken by the lowest free slot
Free(p) == ~Busy(p) /\ \A q \in Slots : q < p => Busy(q)

\* ------------------------------------------------------------ table ratings
\* rating INTEGER NOT NULL CHECK (rating BETWEEN 1 AND 5)
RatingColumnOk(v) == v.type = "number" /\ v.x10 >= 10 /\ v.x10 <= 50

\* Variant: the table without its UNIQUE index
RatingUniqueOk_NoIndex(rows, u, s) == TRUE

\* UNIQUE (user_id, store_id)
RatingUniqueOk(rows, u, s) == ~\E r \in rows : r.user_id = u /\ r.store_id = s

\* INSERT INTO ratings (user_id, store_id, rating): TRUE when no constraint fails
RatingInsertOk(rows, u, s, v) == RatingColumnOk(v) /\ RatingUniqueOk(rows, u, s)

RatingInsert(rows, u, s, v, t) ==
    rows \cup {[id |-> NextId(rows), user_id |-> u, store_id |-> s, rating |-> v.x10,
                created_at |-> t, updated_at |-> t]}

\* Variant: the UPDATE without its WHERE clause
RatingUpdate_NoWhere(rows, id, v, t) ==
    {[r EXCEPT !.rating = v.x10, !.updated_at = t] : r \in rows}

\* UPDATE ratings SET rating = ?, updated_at = CURRENT_TIMESTAMP WHERE id = ?
RatingUpdate(rows, id, v, t) ==
    {IF r.id = id THEN [r EXCEPT !.rating = v.x10, !.updated_at = t] ELSE r : r \in rows}

\* SELECT id FROM ratings WHERE user_id = ? AND store_id = ?  (0: no row)
RatingSelectId(rows, u, s) ==
    IF \E r \in rows : r.user_id = u /\ r.store_id = s
    THEN (CHOOSE r \in rows : r.user_id = u /\ r.store_id = s).id
    ELSE 0

\* SELECT id, user_id, store_id, rating FROM ratings WHERE id = ?
RatingSelectRow(rows, id) ==
    LET hit == {r \in rows : r.id = id} IN
    IF hit = {} THEN <<>>
    ELSE LET r == CHOOSE x \in hit : TRUE IN
         <<[id |-> r.id, user_id |-> r.user_id, store_id |-> r.store_id, rating |-> r.rating]>>

\* Variant: the range check without its lower bound
RatingRejected_UpperOnly(v) == JsGreater(v, 5)

\* the range check of POST /api/stores/:storeId/rating
RatingRejected(v) == JsLess(v, 1) \/ JsGreater(v, 5)

StoreParams == 1..MaxStores

\* POST /api/stores/:storeId/rating, up to the first awaited SELECT
RateStart(p) ==
    /\ Free(p)
    /\ \E cred \in Creds, s \in StoreParams, v \in RatingInputs :
        LET a == authenticate(cred) IN
        IF a.status # 0 THEN
            /\ resp' = Answer("rate", cred, 0, Undefined, a.status, a.msg, <<>>)
            /\ UNCHANGED slot
        ELSE IF RatingRejected(v) THEN
            /\ resp' = Answer("rate", cred, s, v, 400, "Rating must be between 1 and 5", <<>>)
            /\ UNCHANGED slot
        ELSE
            LET existing == RatingSelectId(ratings, cred.id, s) IN
            /\ existing = 0 =>
                 Cardinality(ratings)
                   + Cardinality({q \in Slots : slot[q].op = "rate" /\ slot[q].pc = "write"
                                                 /\ slot[q].existing = 0}) < MaxRatingRows
            /\ slot' = [slot EXCEPT ![p] = [op |-> "rate", pc |-> "write", uid |-> cred.id,
                                            role |-> cred.role, arg |-> s, val |-> v,
                                            existing |-> existing, inserted |-> 0,
                                            user_id |-> 0, counts |-> <<>>]]
            /\ resp' = NoResp
    /\ UNCHANGED <<users, stores, ratings, owner_requests, tokens, now, lastWrite>>

\* the awaited UPDATE (a row was found) or INSERT (none was)
RateWrite(p) ==
    /\ slot[p].op = "rate" /\ slot[p].pc = "write"
    /\ LET s == slot[p] IN
       IF s.existing # 0 THEN
           IF RatingColumnOk(s.val) THEN
               /\ ratings' = RatingUpdate(ratings, s.existing, s.val, now)
               /\ lastWrite' = [lastWrite EXCEPT ![<<s.uid, s.arg>>] = s.val.x10]
               /\ slot' = [slot EXCEPT ![p].pc = "read200"]
               /\ resp' = NoResp
           ELSE
               /\ resp' = AnswerSlot(s, 500, "Server error", <<>>)
               /\ slot' = [slot EXCEPT ![p] = Idle]
               /\ UNCHANGED <<ratings, lastWrite>>
       ELSE
           IF RatingInsertOk(ratings, s.uid, s.arg, s.val) THEN
               /\ ratings' = RatingInsert(ratings, s.uid, s.arg, s.val, now)
               /\ lastWrite' = [lastWrite EXCEPT ![<<s.uid, s.arg>>] = s.val.x10]
               /\ slot' = [slot EXCEPT ![p].pc = "read201", ![p].inserted = NextId(ratings)]
               /\ resp' = NoResp
           ELSE
               /\ resp' = AnswerSlot(s, 500, "Server error", <<>>)
               /\ slot' = [slot EXCEPT ![p] = Idle]
               /\ UNCHANGED <<ratings, lastWrite>>
    /\ UNCHANGED <<users, stores, owner_requests, tokens, now>>

\* the awaited SELECT of the row written, and the answer
RateRespond(p) ==
    /\ slot[p].op = "rate" /\ slot[p].pc \in {"read200", "read201"}
    /\ resp' = IF slot[p].pc = "read201"
               THEN AnswerSlot(slot[p], 201, "", RatingSelectRow(ratings, slot[p].inserted))
               ELSE AnswerSlot(slot[p], 200, "", RatingSelectRow(ratings, slot[p].existing))
    /\ slot' = [slot EXCEPT ![p] = Idle]
    /\ UNCHANGED <<users, stores, ratings, owner_requests, tokens, now, lastWrite>>

\* ------------------------------------------------------------ aggregates
\* an SQL value of a numeric expression: NULL, or the rational num/den (in tenths),
\* kept in lowest terms so that equal values are equal records
Null == [null |-> TRUE, num |-> 0, den |-> 1]

RECURSIVE GCD(_, _)
GCD(a, b) == IF b = 0 THEN a ELSE GCD(b, a % b)

Rat(n, d) == [null |-> FALSE, num |-> n \div GCD(n, d), den |-> d \div GCD(n, d)]

RECURSIVE SumRating(_)
SumRating(R) ==
    IF R = {} THEN 0
    ELSE LET r == CHOOSE x \in R : TRUE IN r.rating + SumRating(R \ {r})

\* AVG(r.rating) and COUNT(r.id) over the non-NULL rows of a group
AVG(R) == IF R = {} THEN Null ELSE Rat(SumRating(R), Cardinality(R))
COUNT(R) == Cardinality(R)
COALESCE(v, d) == IF v.null THEN d ELSE v

\* the r side of a LEFT JOIN row that matched nothing
NullRow == [id |-> 0, user_id |-> 0, store_id |-> 0, rating |-> 0,
            created_at |-> 0, updated_at |-> 0]

\* Variant: an inner JOIN: a store without ratings yields no row
LeftJoinRatings_Inner(S, R) == {j \in S \X R : j[2].store_id = j[1].id}

\* FROM stores s LEFT JOIN ratings r ON r.store_id = s.id
LeftJoinRatings(S, R) ==
    {j \in S \X R : j[2].store_id = j[1].id}
      \cup {<<s, NullRow>> : s \in {x \in S : ~\E r \in R : r.store_id = x.id}}

\* the non-NULL r rows of the group of store sid (GROUP BY s.id)
GroupRatings(J, sid) == {j[2] : j \in {x \in J : x[1].id = sid}} \ {NullRow}

\* a set of rows with distinct ids, as the sequence ordered by id
RECURSIVE SeqById(_)
SeqById(R) ==
    IF R = {} THEN <<>>
    ELSE LET m == CHOOSE x \in R : \A y \in R : x.id <= y.id IN <<m>> \o SeqById(R \ {m})

\* SELECT s.id, COALESCE(AVG(r.rating), 0) AS avg_rating, COUNT(r.id) AS rating_count
\*   FROM stores s LEFT JOIN ratings r ON r.store_id = s.id WHERE s.owner_id = ? GROUP BY s.id
OwnerSummaryRows(S, R, ownerId) ==
    LET J == LeftJoinRatings({s \in S : s.owner_id = ownerId}, R) IN
    SeqById({[id |-> sid,
              avg_rating |-> COALESCE(AVG(GroupRatings(J, sid)), Rat(0, 1)),
              rating_count |-> COUNT(GroupRatings(J, sid))] : sid \in {j[1].id : j \in J}})

\* (SELECT rating FROM ratings ur WHERE ur.store_id = s.id AND ur.user_id = ?)
UserRating(R, sid, uid) ==
    LET hit == {r \in R : r.store_id = sid /\ r.user_id = uid} IN
    IF hit = {} THEN Null ELSE Rat((CHOOSE r \in hit : TRUE).rating, 1)

\* SELECT s.id, COALESCE(AVG(r.rating), 0) AS avg_rating, (...) AS user_rating
\*   FROM stores s LEFT JOIN ratings r ON r.store_id = s.id GROUP BY s.id
\* (ORDER BY s.name: names are not modelled, the rows are listed by id)
StoreListRows(S, R, uid) ==
    LET J == LeftJoinRatings(S, R) IN
    SeqById({[id |-> sid,
              avg_rating |-> COALESCE(AVG(GroupRatings(J, sid)), Rat(0, 1)),
              user_rating |-> UserRating(R, sid, uid)] : sid \in {j[1].id : j \in J}})

\* GET /api/stores
GetStores(p) ==
    /\ Free(p)
    /\ \E cred \in Creds :
        LET a == authenticate(cred) IN
        resp' = IF a.status # 0
                THEN Answer("stores", cred, 0, Undefined, a.status, a.msg, <<>>)
                ELSE Answer("stores", cred, 0, Undefined, 200, "",
                            StoreListRows(stores, ratings, cred.id))
    /\ UNCHANGED <<users, stores, ratings, owner_requests, tokens, now, slot, lastWrite>>

\* GET /api/owner/summary
GetOwnerSummary(p) ==
    /\ Free(p)
    /\ \E cred \in Creds :
        LET a == authenticate(cred)
            r == requireRole({"owner"}, cred) IN
        resp' = IF a.status # 0
                THEN Answer("ownerSummary", cred, 0, Undefined, a.status, a.msg, <<>>)
                ELSE IF r.status # 0
                THEN Answer("ownerSummary", cred, 0, Undefined, r.status, r.msg, <<>>)
                ELSE Answer("ownerSummary", cred, 0, Undefined, 200, "",
                            OwnerSummaryRows(stores, ratings, cred.id))
    /\ UNCHANGED <<users, stores, ratings, owner_requests, tokens, now, slot, lastWrite>>

\* ------------------------------------------------------ table owner_requests
\* Variant: the table without its UNIQUE index
RequestUniqueOk_NoIndex(rows, u) == TRUE

\* UNIQUE (user_id)
RequestUniqueOk(rows, u) == ~\E r \in rows : r.user_id = u

\* INSERT INTO owner_requests (user_id, status) VALUES (?, 'pending')
RequestInsert(rows, u, t) ==
    rows \cup {[id |-> NextId(rows), user_id |-> u, status |-> "pending", reason |-> "",
                created_at |-> t, updated_at |-> t]}

\* Variant: the lookup for pending requests only
RequestSelectActive_PendingOnly(rows, u) ==
    {r \in rows : r.user_id = u /\ r.status = "pending"}

\* SELECT * FROM owner_requests WHERE user_id = ? AND status IN ('pending', 'approved')
RequestSelectActive(rows, u) ==
    {r \in rows : r.user_id = u /\ r.status \in {"pending", "approved"}}

\* SELECT * FROM owner_requests WHERE id = ?  (as a sequence: empty, or the row)
RequestSelectRow(rows, id) ==
    LET hit == {r \in rows : r.id = id} IN
    IF hit = {} THEN <<>> ELSE <<CHOOSE r \in hit : TRUE>>

\* Variant: the queue listed newest first
CreatedAsc_Desc(R) == {k \in R \X R : k[1].created_at >= k[2].created_at}

\* UPDATE owner_requests SET status = 'approved', updated_at = CURRENT_TIMESTAMP WHERE id = ?
RequestApprove(rows, id, t) ==
    {IF r.id = id THEN [r EXCEPT !.status = "approved", !.updated_at = t] ELSE r : r \in rows}

\* UPDATE owner_requests SET status = 'rejected', reason = ?, updated_at = ... WHERE id = ?
RequestReject(rows, id, reason, t) ==
    {IF r.id = id THEN [r EXCEPT !.status = "rejected", !.reason = reason, !.updated_at = t]
     ELSE r : r \in rows}

\* Variant: the UPDATE of users left out
UserSetOwner_Skipped(rows, id) == rows

\* UPDATE users SET role = 'owner' WHERE id = ?
UserSetOwner(rows, id) ==
    {IF u.id = id THEN [u EXCEPT !.role = "owner"] ELSE u : u \in rows}

\* Variant: the reason stored as given, without the default
ReasonOrDefault_AsGiven(v) == v.str

\* reason || 'Request rejected by admin'
ReasonOrDefault(v) ==
    IF v.type = "string" /\ v.str # "" THEN v.str ELSE "Request rejected by admin"

RequestParams == 1..MaxRequests

\* the `reason` bodies the model submits: none, the empty string, a text
ReasonInputs == {Undefined, Str(""), Str("Does not meet criteria")}

\* POST /api/user/request-owner, up to the first awaited SELECT
RequestOwnerStart(p) ==
    /\ Free(p)
    /\ \E cred \in Creds :
        LET a == authenticate(cred)
            r == requireRole({"normal"}, cred) IN
        IF a.status # 0 THEN
            /\ resp' = Answer("requestOwner", cred, 0, Undefined, a.status, a.msg, <<>>)
            /\ UNCHANGED slot
        ELSE IF r.status # 0 THEN
            /\ resp' = Answer("requestOwner", cred, 0, Undefined, r.status, r.msg, <<>>)
            /\ UNCHANGED slot
        ELSE IF RequestSelectActive(owner_requests, cred.id) # {} THEN
            /\ resp' = Answer("requestOwner", cred, 0, Undefined, 400,
                              "You already have a pending or approved owner request", <<>>)
            /\ UNCHANGED slot
        ELSE
            /\ slot' = [slot EXCEPT ![p] = [Idle EXCEPT !.op = "requestOwner", !.pc = "insert",
                                                        !.uid = cred.id, !.role = cred.role]]
            /\ resp' = NoResp
    /\ UNCHANGED <<users, stores, ratings, owner_requests, tokens, now, lastWrite>>

\* the awaited INSERT
RequestOwnerInsert(p) ==
    /\ slot[p].op = "requestOwner" /\ slot[p].pc = "insert"
    /\ IF RequestUniqueOk(owner_requests, slot[p].uid) THEN
           /\ owner_requests' = RequestInsert(owner_requests, slot[p].uid, now)
           /\ slot' = [slot EXCEPT ![p].pc = "read", ![p].inserted = NextId(owner_requests)]
           /\ resp' = NoResp
       ELSE
           /\ resp' = AnswerSlot(slot[p], 500, "Server error", <<>>)
           /\ slot' = [slot EXCEPT ![p] = Idle]
           /\ UNCHANGED owner_requests
    /\ UNCHANGED <<users, stores, ratings, tokens, now, lastWrite>>

\* the awaited SELECT of the row inserted, and the answer
RequestOwnerRespond(p) ==
    /\ slot[p].op = "requestOwner" /\ slot[p].pc = "read"
    /\ resp' = AnswerSlot(slot[p], 201, "Owner request submitted",
                          RequestSelectRow(owner_requests, slot[p].inserted))
    /\ slot' = [slot EXCEPT ![p] = Idle]
    /\ UNCHANGED <<users, stores, ratings, owner_requests, tokens, now, lastWrite>>

\* approve and reject, up to the first awaited SELECT: op is "approve" or "reject"
DecideStart(p, op, cred, requestId, reason) ==
    LET a == authenticate(cred)
        r == requireRole({"admin"}, cred)
        request == RequestSelectRow(owner_requests, requestId) IN
    IF a.status # 0 THEN
        /\ resp' = Answer(op, cred, 0, Undefined, a.status, a.msg, <<>>)
        /\ UNCHANGED slot
    ELSE IF r.status # 0 THEN
        /\ resp' = Answer(op, cred, 0, Undefined, r.status, r.msg, <<>>)
        /\ UNCHANGED slot
    ELSE IF request = <<>> THEN
        /\ resp' = Answer(op, cred, requestId, reason, 404, "Request not found", <<>>)
        /\ UNCHANGED slot
    ELSE IF request[1].status # "pending" THEN
        /\ resp' = Answer(op, cred, requestId, reason, 400, "Request is not pending", <<>>)
        /\ UNCHANGED slot
    ELSE
        /\ slot' = [slot EXCEPT ![p] = [Idle EXCEPT !.op = op,
                                                    !.pc = IF op = "approve" THEN "role" ELSE "status",
                                                    !.uid = cred.id, !.role = cred.role,
                                                    !.arg = requestId, !.val = reason,
                                                    !.user_id = request[1].user_id]]
        /\ resp' = NoResp

\* POST /api/admin/owner-requests/:requestId/approve
ApproveStart(p) ==
    /\ Free(p)
    /\ \E cred \in Creds, requestId \in RequestParams :
           DecideStart(p, "approve", cred, requestId, Undefined)
    /\ UNCHANGED <<users, stores, ratings, owner_requests, tokens, now, lastWrite>>

\* the awaited UPDATE of users
ApproveRole(p) ==
    /\ slot[p].op = "approve" /\ slot[p].pc = "role"
    /\ users' = UserSetOwner(users, slot[p].user_id)
    /\ slot' = [slot EXCEPT ![p].pc = "status"]
    /\ resp' = NoResp
    /\ UNCHANGED <<stores, ratings, owner_requests, tokens, now, lastWrite>>

\* the awaited UPDATE of owner_requests
ApproveStatus(p) ==
    /\ slot[p].op = "approve" /\ slot[p].pc = "status"
    /\ owner_requests' = RequestApprove(owner_requests, slot[p].arg, now)
    /\ slot' = [slot EXCEPT ![p].pc = "read"]
    /\ resp' = NoResp
    /\ UNCHANGED <<users, stores, ratings, tokens, now, lastWrite>>

\* POST /api/admin/owner-requests/:requestId/reject
RejectStart(p) ==
    /\ Free(p)
    /\ \E cred \in Creds, requestId \in RequestParams, reason \in ReasonInputs :
           DecideStart(p, "reject", cred, requestId, reason)
    /\ UNCHANGED <<users, stores, ratings, owner_requests, tokens, now, lastWrite>>

\* the awaited UPDATE of owner_requests
RejectStatus(p) ==
    /\ slot[p].op = "reject" /\ slot[p].pc = "status"
    /\ owner_requests' = RequestReject(owner_requests, slot[p].arg,
                                       ReasonOrDefault(slot[p].val), now)
    /\ slot' = [slot EXCEPT ![p].pc = "read"]
    /\ resp' = NoResp
    /\ UNCHANGED <<users, stores, ratings, tokens, now, lastWrite>>

\* the awaited SELECT of the request decided, and the answer (approve and reject)
DecideRespond(p) ==
    /\ slot[p].op \in {"approve", "reject"} /\ slot[p].pc = "read"
    /\ resp' = AnswerSlot(slot[p], 200,
                          IF slot[p].op = "approve" THEN "Owner request approved"
                          ELSE "Owner request rejected",
                          RequestSelectRow(owner_requests, slot[p].arg))
    /\ slot' = [slot EXCEPT ![p] = Idle]
    /\ UNCHANGED <<users, stores, ratings, owner_requests, tokens, now, lastWrite>>

\* POST /api/auth/login with the email of user u and a password that matches or not
Login(p) ==
    /\ Free(p)
    /\ \E u \in users, ok \in BOOLEAN :
        IF ok THEN
            /\ tokens' = tokens \cup {[id |-> u.id, role |-> u.role]}
            /\ resp' = [NoResp EXCEPT !.op = "login", !.uid = u.id, !.role = u.role,
                                      !.status = 200]
        ELSE
            /\ resp' = [NoResp EXCEPT !.op = "login", !.status = 401,
                                      !.msg = "Invalid credentials"]
            /\ UNCHANGED tokens
    /\ UNCHANGED <<users, stores, ratings, owner_requests, now, slot, lastWrite>>

RatAdd(x, y) == Rat(x.num * y.den + y.num * x.den, x.den * y.den)

RECURSIVE SumOfMeans(_, _)
SumOfMeans(Sids, R) ==
    IF Sids = {} THEN Rat(0, 1)
    ELSE LET sid == CHOOSE x \in Sids : TRUE IN
         RatAdd(AVG({r \in R : r.store_id = sid}), SumOfMeans(Sids \ {sid}, R))

\* Variant: the mean of the per-store means of the owner's rated stores
OwnerRating_MeanOfMeans(S, R, u) ==
    IF u.role = "owner"
    THEN LET rated == {s.id : s \in {x \in S : x.owner_id = u.id
                                              /\ \E r \in R : r.store_id = x.id}}
             t == SumOfMeans(rated, R) IN
         IF rated = {} THEN Rat(0, 1) ELSE Rat(t.num, t.den * Cardinality(rated))
    ELSE Null

\* CASE WHEN u.role = 'owner' THEN COALESCE((SELECT AVG(r.rating) FROM stores s
\*   JOIN ratings r ON r.store_id = s.id WHERE s.owner_id = u.id), 0) END
OwnerRating(S, R, u) ==
    IF u.role = "owner"
    THEN COALESCE(AVG({r \in R : \E s \in S : s.owner_id = u.id /\ r.store_id = s.id}),
                  Rat(0, 1))
    ELSE Null

\* SELECT u.id, u.role, (...) AS owner_rating FROM users u
\* (ORDER BY u.name: names are not modelled, the rows are listed by id)
AdminUserRows(U, S, R) ==
    SeqById({[id |-> u.id, role |-> u.role, owner_rating |-> OwnerRating(S, R, u)] : u \in U})

\* GET /api/admin/users
GetAdminUsers(p) ==
    /\ Free(p)
    /\ \E cred \in Creds :
        LET a == authenticate(cred)
            r == requireRole({"admin"}, cred) IN
        resp' = IF a.status # 0
                THEN Answer("adminUsers", cred, 0, Undefined, a.status, a.msg, <<>>)
                ELSE IF r.status # 0
                THEN Answer("adminUsers", cred, 0, Undefined, r.status, r.msg, <<>>)
                ELSE Answer("adminUsers", cred, 0, Undefined, 200, "",
                            AdminUserRows(users, stores, ratings))
    /\ UNCHANGED <<users, stores, ratings, owner_requests, tokens, now, slot, lastWrite>>

\* ------------------------------------------------------------- table users
\* email TEXT NOT NULL UNIQUE
UserEmailUniqueOk(rows, e) == ~\E u \in rows : u.email = e

\* role TEXT NOT NULL CHECK (role IN ('admin','normal','owner'))
UserRoleOk(role) == role \in {"admin", "normal", "owner"}

\* INSERT INTO users (name, email, address, password_hash, role)
UserInsert(rows, e, role) == rows \cup {[id |-> NextId(rows), email |-> e, role |-> role]}

\* SELECT id, name, email, address, role FROM users WHERE id = ?
UserSelectRow(rows, id) ==
    LET hit == {u \in rows : u.id = id} IN
    IF hit = {} THEN <<>> ELSE <<CHOOSE u \in hit : TRUE>>

\* Variant: the role check left out
RoleAllowed_Any(v) == v.type = "string"

\* ['admin', 'normal', 'owner'].includes(role)
RoleAllowed(v) == v.type = "string" /\ v.str \in {"admin", "normal", "owner"}

\* the `role` bodies the model submits, and the emails: the seeded admin's, and one
\* that no user of a starting database has
RoleInputs == {Str("admin"), Str("normal"), Str("owner"), Str("superuser"), Undefined}
EmailInputs == {1, MaxUsers}

\* the emails the INSERTs in flight would add, with e
NewEmails(e) ==
    {x \in {e} \cup {slot[q].arg : q \in {r \in Slots : slot[r].op \in {"signup", "createUser"}
                                                         /\ slot[r].pc = "insert"}} :
        UserEmailUniqueOk(users, x)}

\* the awaited INSERT of signup and of POST /api/admin/users, with its catch
UserInsertStep(p, role) ==
    /\ IF UserEmailUniqueOk(users, slot[p].arg) /\ UserRoleOk(role) THEN
           /\ users' = UserInsert(users, slot[p].arg, role)
           /\ slot' = [slot EXCEPT ![p].pc = "read", ![p].inserted = NextId(users)]
           /\ resp' = NoResp
       ELSE
           /\ resp' = IF UserEmailUniqueOk(users, slot[p].arg)
                      THEN AnswerSlot(slot[p], 500, "Server error", <<>>)
                      ELSE AnswerSlot(slot[p], 400, "Email already registered", <<>>)
           /\ slot' = [slot EXCEPT ![p] = Idle]
           /\ UNCHANGED users
    /\ UNCHANGED <<stores, ratings, owner_requests, tokens, now, lastWrite>>

\* POST /api/auth/signup, up to the awaited bcrypt.hash: formOk is validateFormData
\* finding no error; the body may carry a role, which the handler does not read
SignupStart(p) ==
    /\ Free(p)
    /\ \E formOk \in BOOLEAN, e \in EmailInputs, role \in RoleInputs :
        IF ~formOk THEN
            /\ resp' = [NoResp EXCEPT !.op = "signup", !.arg = e, !.val = role,
                                      !.status = 400, !.msg = "Validation failed"]
            /\ UNCHANGED slot
        ELSE
            /\ Cardinality(users) + Cardinality(NewEmails(e)) <= MaxUsers
            /\ slot' = [slot EXCEPT ![p] = [Idle EXCEPT !.op = "signup", !.pc = "insert",
                                                        !.arg = e, !.val = role]]
            /\ resp' = NoResp
    /\ UNCHANGED <<users, stores, ratings, owner_requests, tokens, now, lastWrite>>

SignupInsert(p) ==
    /\ slot[p].op = "signup" /\ slot[p].pc = "insert"
    /\ UserInsertStep(p, "normal")

\* the awaited SELECT of the user inserted, and the answer (signup and admin creation)
UserRespond(p) ==
    /\ slot[p].op \in {"signup", "createUser"} /\ slot[p].pc = "read"
    /\ resp' = AnswerSlot(slot[p], 201, "", UserSelectRow(users, slot[p].inserted))
    /\ slot' = [slot EXCEPT ![p] = Idle]
    /\ UNCHANGED <<users, stores, ratings, owner_requests, tokens, now, lastWrite>>

\* POST /api/admin/users, up to the awaited bcrypt.hash
CreateUserStart(p) ==
    /\ Free(p)
    /\ \E cred \in Creds, formOk \in BOOLEAN, e \in EmailInputs, role \in RoleInputs :
        LET a == authenticate(cred)
            r == requireRole({"admin"}, cred) IN
        IF a.status # 0 THEN
            /\ resp' = Answer("createUser", cred, 0, Undefined, a.status, a.msg, <<>>)
            /\ UNCHANGED slot
        ELSE IF r.status # 0 THEN
            /\ resp' = Answer("createUser", cred, 0, Undefined, r.status, r.msg, <<>>)
            /\ UNCHANGED slot
        ELSE IF ~RoleAllowed(role) THEN
            /\ resp' = Answer("createUser", cred, e, role, 400, "Invalid role", <<>>)
            /\ UNCHANGED slot
        ELSE IF ~formOk THEN
            /\ resp' = Answer("createUser", cred, e, role, 400, "Validation failed", <<>>)
            /\ UNCHANGED slot
        ELSE
            /\ Cardinality(users) + Cardinality(NewEmails(e)) <= MaxUsers
            /\ slot' = [slot EXCEPT ![p] = [Idle EXCEPT !.op = "createUser", !.pc = "insert",
                                                        !.uid = cred.id, !.role = cred.role,
                                                        !.arg = e, !.val = role]]
            /\ resp' = NoResp
    /\ UNCHANGED <<users, stores, ratings, owner_requests, tokens, now, lastWrite>>

CreateUserInsert(p) ==
    /\ slot[p].op = "createUser" /\ slot[p].pc = "insert"
    /\ UserInsertStep(p, slot[p].val.str)

\* ------------------------------------------------------------ table stores
\* INSERT INTO stores (name, email, address, owner_id): owner_id || null (0 is NULL)
StoreInsert(rows, owner) == rows \cup {[id |-> NextId(rows), owner_id |-> owner]}

\* SELECT id, name, email, address, owner_id FROM stores WHERE id = ?
StoreSelectRow(rows, id) ==
    LET hit == {x \in rows : x.id = id} IN
    IF hit = {} THEN <<>> ELSE <<CHOOSE x \in hit : TRUE>>

\* the `owner_id` bodies the model submits: none (0), or a number
OwnerInputs == 0..MaxUsers

\* POST /api/admin/stores, up to the awaited INSERT: nameOk is a body with a name
\* (name TEXT NOT NULL)
CreateStoreInsert(p) ==
    /\ Free(p)
    /\ \E cred \in Creds, nameOk \in BOOLEAN, owner \in OwnerInputs :
        LET a == authenticate(cred)
            r == requireRole({"admin"}, cred) IN
        IF a.status # 0 THEN
            /\ resp' = Answer("createStore", cred, 0, Undefined, a.status, a.msg, <<>>)
            /\ UNCHANGED <<slot, stores>>
        ELSE IF r.status # 0 THEN
            /\ resp' = Answer("createStore", cred, 0, Undefined, r.status, r.msg, <<>>)
            /\ UNCHANGED <<slot, stores>>
        ELSE IF ~nameOk THEN
            /\ resp' = Answer("createStore", cred, owner, Undefined, 500, "Server error", <<>>)
            /\ UNCHANGED <<slot, stores>>
        ELSE
            /\ Cardinality(stores) < MaxStores
            /\ stores' = StoreInsert(stores, owner)
            /\ slot' = [slot EXCEPT ![p] = [Idle EXCEPT !.op = "createStore", !.pc = "read",
                                                        !.uid = cred.id, !.role = cred.role,
                                                        !.arg = owner,
                                                        !.inserted = NextId(stores)]]
            /\ resp' = NoResp
    /\ UNCHANGED <<users, ratings, owner_requests, tokens, now, lastWrite>>

\* the awaited SELECT of the store inserted, and the answer
CreateStoreRespond(p) ==
    /\ slot[p].op = "createStore" /\ slot[p].pc = "read"
    /\ resp' = AnswerSlot(slot[p], 201, "", StoreSelectRow(stores, slot[p].inserted))
    /\ slot' = [slot EXCEPT ![p] = Idle]
    /\ UNCHANGED <<users, stores, ratings, owner_requests, tokens, now, lastWrite>>

\* GET /api/admin/summary, up to the awaited SELECT COUNT(*) FROM users
SummaryUsers(p) ==
    /\ Free(p)
    /\ \E cred \in Creds :
        LET a == authenticate(cred)
            r == requireRole({"admin"}, cred) IN
        IF a.status # 0 THEN
            /\ resp' = Answer("summary", cred, 0, Undefined, a.status, a.msg, <<>>)
            /\ UNCHANGED slot
        ELSE IF r.status # 0 THEN
            /\ resp' = Answer("summary", cred, 0, Undefined, r.status, r.msg, <<>>)
            /\ UNCHANGED slot
        ELSE
            /\ slot' = [slot EXCEPT ![p] = [Idle EXCEPT !.op = "summary", !.pc = "stores",
                                                        !.uid = cred.id, !.role = cred.role,
                                                        !.counts = <<Cardinality(users)>>]]
            /\ resp' = NoResp
    /\ UNCHANGED <<users, stores, ratings, owner_requests, tokens, now, lastWrite>>

\* the awaited SELECT COUNT(*) FROM stores
SummaryStores(p) ==
    /\ slot[p].op = "summary" /\ slot[p].pc = "stores"
    /\ slot' = [slot EXCEPT ![p].pc = "ratings",
                            ![p].counts = Append(slot[p].counts, Cardinality(stores))]
    /\ resp' = NoResp
    /\ UNCHANGED <<users, stores, ratings, owner_requests, tokens, now, lastWrite>>

\* the awaited SELECT COUNT(*) FROM ratings, and the answer
SummaryRatings(p) ==
    /\ slot[p].op = "summary" /\ slot[p].pc = "ratings"
    /\ resp' = AnswerSlot(slot[p], 200, "",
                          <<[user_count |-> slot[p].counts[1],
                             store_count |-> slot[p].counts[2],
                             rating_count |-> Cardinality(ratings)]>>)
    /\ slot' = [slot EXCEPT ![p] = Idle]
    /\ UNCHANGED <<users, stores, ratings, owner_requests, tokens, now, lastWrite>>

\* a gated read that answers from one SELECT: roles is the set requireRole is given
\* (AnyRole: the route has no requireRole), body(cred) the rows the SELECT returns
AnyRole == {"admin", "normal", "owner"}

GatedRead(op, roles, cred, arg, body) ==
    LET a == authenticate(cred)
        r == requireRole(roles, cred) IN
    IF a.status # 0 THEN Answer(op, cred, 0, Undefined, a.status, a.msg, <<>>)
    ELSE IF r.status # 0 THEN Answer(op, cred, 0, Undefined, r.status, r.msg, <<>>)
    ELSE Answer(op, cred, arg, Undefined, 200, "", body)

\* SELECT s.id, COALESCE(AVG(r.rating), 0) AS avg_rating
\*   FROM stores s LEFT JOIN ratings r ON r.store_id = s.id GROUP BY s.id
AdminStoreRows(S, R) ==
    LET J == LeftJoinRatings(S, R) IN
    SeqById({[id |-> sid,
              avg_rating |-> COALESCE(AVG(GroupRatings(J, sid)), Rat(0, 1))]
             : sid \in {j[1].id : j \in J}})

\* GET /api/admin/stores
GetAdminStores(p) ==
    /\ Free(p)
    /\ \E cred \in Creds :
           resp' = GatedRead("adminStores", {"admin"}, cred, 0, AdminStoreRows(stores, ratings))
    /\ UNCHANGED <<users, stores, ratings, owner_requests, tokens, now, slot, lastWrite>>

\* the rows of R as a sequence in an order ORDER BY allows: every arrangement of
\* R in which <<x, y>> is in Before for each row x listed right before a row y
Arrangements(R, Before) ==
    {sq \in [1..Cardinality(R) -> R] :
        /\ \A i, j \in 1..Cardinality(R) : sq[i] = sq[j] => i = j
        /\ \A i \in 1..(Cardinality(R) - 1) : <<sq[i], sq[i + 1]>> \in Before}

CreatedAsc(R) == {k \in R \X R : k[1].created_at <= k[2].created_at}
CreatedDesc(R) == {k \in R \X R : k[1].created_at >= k[2].created_at}
UpdatedDesc(R) == {k \in R \X R : k[1].updated_at >= k[2].updated_at}

\* FROM owner_requests r JOIN users u ON u.id = r.user_id
RequestsJoinUsers(Q, U) == {r \in Q : \E u \in U : u.id = r.user_id}

\* GET /api/admin/owner-requests: WHERE r.status = 'pending' ORDER BY r.created_at ASC
GetOwnerRequests(p) ==
    /\ Free(p)
    /\ \E cred \in Creds :
        \E rows \in LET R == {r \in RequestsJoinUsers(owner_requests, users) :
                                  r.status = "pending"}
                    IN Arrangements(R, CreatedAsc(R)) :
           resp' = GatedRead("ownerRequests", {"admin"}, cred, 0, rows)
    /\ UNCHANGED <<users, stores, ratings, owner_requests, tokens, now, slot, lastWrite>>

\* the `status` queries the model submits: none, or a status
StatusInputs == {Undefined, Str("pending"), Str("approved"), Str("rejected")}

\* GET /api/admin/owner-requests/all: WHERE r.status = ? when the query carries a
\* status, ORDER BY r.created_at DESC
GetAllOwnerRequests(p) ==
    /\ Free(p)
    /\ \E cred \in Creds, status \in StatusInputs :
        \E rows \in LET R == {r \in RequestsJoinUsers(owner_requests, users) :
                                  status.type = "string" => r.status = status.str}
                    IN Arrangements(R, CreatedDesc(R)) :
           LET g == GatedRead("allOwnerRequests", {"admin"}, cred, 0, rows) IN
           resp' = IF g.status = 200 THEN [g EXCEPT !.val = status] ELSE g
    /\ UNCHANGED <<users, stores, ratings, owner_requests, tokens, now, slot, lastWrite>>

\* SELECT * FROM owner_requests WHERE user_id = ?  (empty: request: null)
RequestSelectUser(rows, u) ==
    LET hit == {r \in rows : r.user_id = u} IN
    IF hit = {} THEN <<>> ELSE <<CHOOSE r \in hit : TRUE>>

\* GET /api/user/owner-request-status
GetOwnerRequestStatus(p) ==
    /\ Free(p)
    /\ \E cred \in Creds :
           resp' = GatedRead("ownerRequestStatus", {"normal"}, cred, 0,
                             RequestSelectUser(owner_requests, cred.id))
    /\ UNCHANGED <<users, stores, ratings, owner_requests, tokens, now, slot, lastWrite>>

\* POST /api/auth/change-password, up to the awaited bcrypt.hash: fieldsOk is a body
\* with both passwords, newOk is validatePassword(newPassword), oldOk is
\* bcrypt.compare(oldPassword, user.password_hash)
ChangePasswordStart(p) ==
    /\ Free(p)
    /\ \E cred \in Creds, fieldsOk \in BOOLEAN, newOk \in BOOLEAN, oldOk \in BOOLEAN :
        LET a == authenticate(cred) IN
        IF a.status # 0 THEN
            /\ resp' = Answer("changePassword", cred, 0, Undefined, a.status, a.msg, <<>>)
            /\ UNCHANGED slot
        ELSE IF ~fieldsOk THEN
            /\ resp' = Answer("changePassword", cred, 0, Undefined, 400,
                              "Missing required fields", <<>>)
            /\ UNCHANGED slot
        ELSE IF ~newOk THEN
            /\ resp' = Answer("changePassword", cred, 0, Undefined, 400,
                              "Password validation failed", <<>>)
            /\ UNCHANGED slot
        ELSE IF UserSelectRow(users, cred.id) = <<>> THEN
            /\ resp' = Answer("changePassword", cred, 0, Undefined, 404, "User not found", <<>>)
            /\ UNCHANGED slot
        ELSE IF ~oldOk THEN
            /\ resp' = Answer("changePassword", cred, 0, Undefined, 400,
                              "Old password incorrect", <<>>)
            /\ UNCHANGED slot
        ELSE
            /\ slot' = [slot EXCEPT ![p] = [Idle EXCEPT !.op = "changePassword",
                                                        !.pc = "update",
                                                        !.uid = cred.id, !.role = cred.role]]
            /\ resp' = NoResp
    /\ UNCHANGED <<users, stores, ratings, owner_requests, tokens, now, lastWrite>>

\* the awaited UPDATE users SET password_hash = ? WHERE id = ? (password hashes are
\* not columns of the model: the rows keep their id, email and role), and the answer
ChangePasswordUpdate(p) ==
    /\ slot[p].op = "changePassword" /\ slot[p].pc = "update"
    /\ resp' = AnswerSlot(slot[p], 200, "Password updated", <<>>)
    /\ slot' = [slot EXCEPT ![p] = Idle]
    /\ UNCHANGED <<users, stores, ratings, owner_requests, tokens, now, lastWrite>>

\* Variant: the check that the store exists, whoever owns it
StoreOwnerCheck_ExistsOnly(S, sid, uid) == \E x \in S : x.id = sid

\* SELECT id FROM stores WHERE id = ? AND owner_id = ?
StoreOwnerCheck(S, sid, uid) == \E x \in S : x.id = sid /\ x.owner_id = uid

\* SELECT u.id, r.rating, r.created_at, r.updated_at
\*   FROM ratings r JOIN users u ON u.id = r.user_id WHERE r.store_id = ?
RaterRows(R, U, sid) ==
    {[id |-> r.user_id, rating |-> r.rating, created_at |-> r.created_at,
      updated_at |-> r.updated_at]
     : r \in {x \in R : x.store_id = sid /\ \E u \in U : u.id = x.user_id}}

\* the storeId parameters the model submits: the stores there can be, and one more
RaterStoreParams == 1..(MaxStores + 2)

\* GET /api/owner/store-raters/:storeId, up to the awaited ownership SELECT
RatersStart(p) ==
    /\ Free(p)
    /\ \E cred \in Creds, sid \in RaterStoreParams :
        LET a == authenticate(cred)
            r == requireRole({"owner"}, cred) IN
        IF a.status # 0 THEN
            /\ resp' = Answer("storeRaters", cred, 0, Undefined, a.status, a.msg, <<>>)
            /\ UNCHANGED slot
        ELSE IF r.status # 0 THEN
            /\ resp' = Answer("storeRaters", cred, 0, Undefined, r.status, r.msg, <<>>)
            /\ UNCHANGED slot
        ELSE IF ~StoreOwnerCheck(stores, sid, cred.id) THEN
            /\ resp' = Answer("storeRaters", cred, sid, Undefined, 403, "Not your store", <<>>)
            /\ UNCHANGED slot
        ELSE
            /\ slot' = [slot EXCEPT ![p] = [Idle EXCEPT !.op = "storeRaters", !.pc = "raters",
                                                        !.uid = cred.id, !.role = cred.role,
                                                        !.arg = sid]]
            /\ resp' = NoResp
    /\ UNCHANGED <<users, stores, ratings, owner_requests, tokens, now, lastWrite>>

\* the awaited SELECT of the raters (ORDER BY r.updated_at DESC), and the answer
RatersRespond(p) ==
    /\ slot[p].op = "storeRaters" /\ slot[p].pc = "raters"
    /\ \E rows \in LET R == RaterRows(ratings, users, slot[p].arg)
                    IN Arrangements(R, UpdatedDesc(R)) :
           resp' = AnswerSlot(slot[p], 200, "", rows)
    /\ slot' = [slot EXCEPT ![p] = Idle]
    /\ UNCHANGED <<users, stores, ratings, owner_requests, tokens, now, lastWrite>>

\* the clock of CURRENT_TIMESTAMP advances
Tick ==
    /\ now < MaxTime
    /\ now' = now + 1
    /\ resp' = NoResp
    /\ UNCHANGED <<users, stores, ratings, owner_requests, tokens, slot, lastWrite>>

Pairs == (1..MaxUsers) \X StoreParams

\* the ratings last written, as the rows of a table show them
LastWriteOf(R) ==
    [k \in Pairs |-> IF \E r \in R : <<r.user_id, r.store_id>> = k
                     THEN (CHOOSE r \in R : <<r.user_id, r.store_id>> = k).rating
                     ELSE 0]

\* A database the program reaches: the seeded admin, an owner and a normal user;
\* the owner logged in; store 1, owned by the owner, created or not yet; the normal
\* user's rating of store 1 (4) submitted or not yet.
SeedRating == [id |-> 1, user_id |-> 3, store_id |-> 1, rating |-> 40,
               created_at |-> 0, updated_at |-> 0]

InitLedger ==
    /\ users = {[id |-> 1, email |-> 1, role |-> "admin"], [id |-> 2, email |-> 2, role |-> "owner"],
                [id |-> 3, email |-> 3, role |-> "normal"]}
    /\ stores \in {{}, {[id |-> 1, owner_id |-> 2]}}
    /\ ratings \in {{}, {SeedRating}}
    /\ owner_requests = {}
    /\ tokens = {[id |-> 2, email |-> 2, role |-> "owner"]}
    /\ now = 0
    /\ slot = [p \in Slots |-> Idle]
    /\ resp = NoResp
    /\ lastWrite = LastWriteOf(ratings)

NextLedger ==
    \/ Tick
    \/ \E p \in Slots : RateStart(p)
    \/ \E p \in Slots : RateWrite(p)
    \/ \E p \in Slots : RateRespond(p)
    \/ \E p \in Slots : GetStores(p)
    \/ \E p \in Slots : GetOwnerSummary(p)

SpecLedger == InitLedger /\ [][NextLedger]_vars

\* the seeded admin and a normal user who signed up; both logged in
InitWorkflow ==
    /\ users = {[id |-> 1, email |-> 1, role |-> "admin"], [id |-> 2, email |-> 2, role |-> "normal"]}
    /\ stores = {}
    /\ ratings = {}
    /\ owner_requests = {}
    /\ tokens = {[id |-> 1, email |-> 1, role |-> "admin"], [id |-> 2, email |-> 2, role |-> "normal"]}
    /\ now = 0
    /\ slot = [p \in Slots |-> Idle]
    /\ resp = NoResp
    /\ lastWrite = LastWriteOf(ratings)

NextWorkflow ==
    \/ Tick
    \/ \E p \in Slots : Login(p)
    \/ \E p \in Slots : RequestOwnerStart(p)
    \/ \E p \in Slots : RequestOwnerInsert(p)
    \/ \E p \in Slots : RequestOwnerRespond(p)
    \/ \E p \in Slots : ApproveStart(p)
    \/ \E p \in Slots : ApproveRole(p)
    \/ \E p \in Slots : ApproveStatus(p)
    \/ \E p \in Slots : RejectStart(p)
    \/ \E p \in Slots : RejectStatus(p)
    \/ \E p \in Slots : DecideRespond(p)

SpecWorkflow == InitWorkflow /\ [][NextWorkflow]_vars

\* A database the program reaches, for the aggregate reads: the seeded admin, an
\* owner and a normal user; two stores, each owned by the owner, by the normal user
\* or by nobody; any ratings of 4 or 5 by the three users, numbered in the order
\* they were inserted; the admin and the owner logged in.
AggPairs == {<<1, 1>>, <<1, 2>>, <<2, 1>>, <<2, 2>>, <<3, 1>>, <<3, 2>>}

AggOrd(k) == 2 * k[1] + k[2]

AggRatings(f) ==
    LET chosen == {k \in AggPairs : f[k] # 0} IN
    {[id |-> Cardinality({j \in chosen : AggOrd(j) <= AggOrd(k)}),
      user_id |-> k[1], store_id |-> k[2], rating |-> f[k],
      created_at |-> 0, updated_at |-> 0] : k \in chosen}

InitAgg ==
    /\ users = {[id |-> 1, email |-> 1, role |-> "admin"], [id |-> 2, email |-> 2, role |-> "owner"],
                [id |-> 3, email |-> 3, role |-> "normal"]}
    /\ \E o1, o2 \in {0, 2, 3} :
           stores = {[id |-> 1, owner_id |-> o1], [id |-> 2, owner_id |-> o2]}
    /\ \E f \in [AggPairs -> {0, 40, 50}] : ratings = AggRatings(f)
    /\ owner_requests = {}
    /\ tokens = {[id |-> 1, email |-> 1, role |-> "admin"], [id |-> 2, email |-> 2, role |-> "owner"]}
    /\ now = 0
    /\ slot = [p \in Slots |-> Idle]
    /\ resp = NoResp
    /\ lastWrite = LastWriteOf(ratings)

NextAgg ==
    \/ \E p \in Slots : GetAdminUsers(p)
    \/ \E p \in Slots : GetOwnerSummary(p)
    \/ \E p \in Slots : GetStores(p)

SpecAgg == InitAgg /\ [][NextAgg]_vars

\* the seeded admin, an owner and a normal user
GateUsers ==
    {[id |-> 1, email |-> 1, role |-> "admin"], [id |-> 2, email |-> 2, role |-> "owner"],
     [id |-> 3, email |-> 3, role |-> "normal"]}

\* A database the program reaches, for the owner's lookups: as for the aggregate
\* reads, with ratings of 4 only and the owner logged in.
InitRaters ==
    /\ users = GateUsers
    /\ \E o1, o2 \in {0, 2, 3} :
           stores = {[id |-> 1, owner_id |-> o1], [id |-> 2, owner_id |-> o2]}
    /\ \E f \in [AggPairs -> {0, 40}] : ratings = AggRatings(f)
    /\ owner_requests = {}
    /\ tokens = {[id |-> 2, role |-> "owner"]}
    /\ now = 0
    /\ slot = [p \in Slots |-> Idle]
    /\ resp = NoResp
    /\ lastWrite = LastWriteOf(ratings)

NextRaters ==
    \/ \E p \in Slots : RatersStart(p)
    \/ \E p \in Slots : RatersRespond(p)
    \/ \E p \in Slots : GetOwnerSummary(p)

SpecRaters == InitRaters /\ [][NextRaters]_vars

\* Databases the program reaches, for the gate, each with one session logged in:
\* the seeded admin, an owner and a normal user, and
\*   the admin's session, with the normal user's request pending; or
\*   the normal user's session, before any request of that user, with the request
\*   that made the owner an owner stored as approved; or
\*   the owner's session, with store 1 assigned to the owner and rated by the normal user.
InitGate ==
    /\ users = GateUsers
    /\ \/ /\ tokens = {[id |-> 1, role |-> "admin"]}
          /\ stores = {}
          /\ ratings = {}
          /\ owner_requests = RequestInsert({}, 3, 0)
       \/ /\ tokens = {[id |-> 3, role |-> "normal"]}
          /\ stores = {}
          /\ ratings = {}
          /\ owner_requests = RequestApprove(RequestInsert({}, 2, 0), 1, 0)
       \/ /\ tokens = {[id |-> 2, role |-> "owner"]}
          /\ stores = {[id |-> 1, owner_id |-> 2]}
          /\ ratings = {SeedRating}
          /\ owner_requests = {}
    /\ now = 0
    /\ slot = [p \in Slots |-> Idle]
    /\ resp = NoResp
    /\ lastWrite = LastWriteOf(ratings)

\* every gated route
GatedStep(p) ==
    \/ ChangePasswordStart(p) \/ ChangePasswordUpdate(p)
    \/ SummaryUsers(p) \/ SummaryStores(p) \/ SummaryRatings(p)
    \/ CreateUserStart(p) \/ CreateUserInsert(p) \/ UserRespond(p)
    \/ GetAdminUsers(p)
    \/ CreateStoreInsert(p) \/ CreateStoreRespond(p)
    \/ GetAdminStores(p)
    \/ GetOwnerRequests(p) \/ GetAllOwnerRequests(p)
    \/ ApproveStart(p) \/ ApproveRole(p) \/ ApproveStatus(p)
    \/ RejectStart(p) \/ RejectStatus(p) \/ DecideRespond(p)
    \/ RequestOwnerStart(p) \/ RequestOwnerInsert(p) \/ RequestOwnerRespond(p)
    \/ GetOwnerRequestStatus(p)
    \/ GetStores(p)
    \/ RateStart(p) \/ RateWrite(p) \/ RateRespond(p)
    \/ GetOwnerSummary(p)
    \/ RatersStart(p) \/ RatersRespond(p)

\* every route but login, the requests served one after the other
NextGate == GatedStep(1) \/ SignupStart(1) \/ SignupInsert(1)

SpecGate == InitGate /\ [][NextGate]_vars

\* A database the program reaches, for the sessions: the seeded admin and a normal
\* user, both logged in; store 1, which the admin created with the user's id as owner.
InitSession ==
    /\ users = {[id |-> 1, email |-> 1, role |-> "admin"], [id |-> 2, email |-> 2, role |-> "normal"]}
    /\ stores = {[id |-> 1, owner_id |-> 2]}
    /\ ratings = {}
    /\ owner_requests = {}
    /\ tokens = {[id |-> 1, role |-> "admin"], [id |-> 2, role |-> "normal"]}
    /\ now = 0
    /\ slot = [p \in Slots |-> Idle]
    /\ resp = NoResp
    /\ lastWrite = LastWriteOf(ratings)

NextSession ==
    \/ \E p \in Slots : Login(p)
    \/ \E p \in Slots : RequestOwnerStart(p)
    \/ \E p \in Slots : RequestOwnerInsert(p)
    \/ \E p \in Slots : RequestOwnerRespond(p)
    \/ \E p \in Slots : GetOwnerRequestStatus(p)
    \/ \E p \in Slots : ApproveStart(p)
    \/ \E p \in Slots : ApproveRole(p)
    \/ \E p \in Slots : ApproveStatus(p)
    \/ \E p \in Slots : DecideRespond(p)
    \/ \E p \in Slots : GetOwnerSummary(p)
    \/ \E p \in Slots : RatersStart(p)
    \/ \E p \in Slots : RatersRespond(p)

SpecSession == InitSession /\ [][NextSession]_vars

\* A database the program reaches, for the queue of requests: the seeded admin and
\* two normal users; the second normal user's request, made a second ago and
\* pending; store 1; the admin and the first normal user logged in.
InitQueue ==
    /\ users = {[id |-> 1, email |-> 1, role |-> "admin"], [id |-> 2, email |-> 2, role |-> "normal"],
                [id |-> 3, email |-> 3, role |-> "normal"]}
    /\ stores = {[id |-> 1, owner_id |-> 0]}
    /\ ratings = {}
    /\ owner_requests = RequestInsert({}, 3, 0)
    /\ tokens = {[id |-> 1, role |-> "admin"], [id |-> 2, role |-> "normal"]}
    /\ now = MaxTime
    /\ slot = [p \in Slots |-> Idle]
    /\ resp = NoResp
    /\ lastWrite = LastWriteOf(ratings)

NextQueue ==
    \/ \E p \in Slots : RequestOwnerStart(p)
    \/ \E p \in Slots : RequestOwnerInsert(p)
    \/ \E p \in Slots : RequestOwnerRespond(p)
    \/ \E p \in Slots : GetOwnerRequests(p)
    \/ \E p \in Slots : ApproveStart(p)
    \/ \E p \in Slots : ApproveRole(p)
    \/ \E p \in Slots : ApproveStatus(p)
    \/ \E p \in Slots : RejectStart(p)
    \/ \E p \in Slots : RejectStatus(p)
    \/ \E p \in Slots : DecideRespond(p)

SpecQueue == InitQueue /\ [][NextQueue]_vars

\* Databases the program reaches, for calls on different keys, each with the sessions
\* of one kind of caller: the seeded admin and two normal users, store 1, and
\*   both normal users logged in, user 3's rating of store 1 (4) submitted or not
\*   yet, and no request; or
\*   the admin logged in, both users' requests pending, and both users' ratings
\*   of store 1 stored.
InitIndep ==
    /\ users = {[id |-> 1, email |-> 1, role |-> "admin"], [id |-> 2, email |-> 2, role |-> "normal"],
                [id |-> 3, email |-> 3, role |-> "normal"]}
    /\ stores = {[id |-> 1, owner_id |-> 0]}
    /\ \/ /\ tokens = {[id |-> 2, role |-> "normal"], [id |-> 3, role |-> "normal"]}
          /\ ratings \in {{}, {SeedRating}}
          /\ owner_requests = {}
       \/ /\ tokens = {[id |-> 1, role |-> "admin"]}
          /\ ratings = RatingInsert({SeedRating}, 2, 1, Num(50), 0)
          /\ owner_requests = RequestInsert(RequestInsert({}, 2, 0), 3, 0)
    /\ now = MaxTime
    /\ slot = [p \in Slots |-> Idle]
    /\ resp = NoResp
    /\ lastWrite = LastWriteOf(ratings)

NextIndep ==
    \/ \E p \in Slots : RateStart(p)
    \/ \E p \in Slots : RateWrite(p)
    \/ \E p \in Slots : RateRespond(p)
    \/ \E p \in Slots : ApproveStart(p)
    \/ \E p \in Slots : ApproveRole(p)
    \/ \E p \in Slots : ApproveStatus(p)
    \/ \E p \in Slots : RejectStart(p)
    \/ \E p \in Slots : RejectStatus(p)
    \/ \E p \in Slots : DecideRespond(p)

SpecIndep == InitIndep /\ [][NextIndep]_vars

\* -------------------------------------------------------------- properties
ValidRating(v) == v.type = "number" /\ v.x10 \in {10, 20, 30, 40, 50}
OutOfRange(v) == v.type = "number" /\ (v.x10 < 10 \/ v.x10 > 50)
RowsOf(u, s) == {r \in ratings : r.user_id = u /\ r.store_id = s}

\* C1: in every reachable state, for every user u and store s, at most one row of
\* ratings has (user_id = u, store_id = s).
C1_OneRatingPerPair ==
    \A r1, r2 \in ratings :
        (r1.user_id = r2.user_id /\ r1.store_id = r2.store_id) => r1 = r2

\* a second INSERT for a pair that has a row was attempted, and refused
C1_Witness ==
    /\ resp.op = "rate" /\ resp.status = 500 /\ ValidRating(resp.val)
    /\ RowsOf(resp.uid, resp.arg) # {}

\* C2: whenever writes for a pair (u, s) were committed, also by two calls in flight
\* together with different valid values, exactly one row exists for the pair and its
\* value is the value of the write committed last.
C2_LastCommittedWins ==
    \A k \in Pairs :
        lastWrite[k] # 0 =>
            /\ Cardinality(RowsOf(k[1], k[2])) = 1
            /\ \A r \in RowsOf(k[1], k[2]) : r.rating = lastWrite[k]

\* two calls for the same pair, with different valid values, have both written and
\* neither has answered yet
C2_Witness ==
    \E p, q \in Slots :
        /\ p # q
        /\ slot[p].op = "rate" /\ slot[q].op = "rate"
        /\ slot[p].pc \in {"read200", "read201"} /\ slot[q].pc \in {"read200", "read201"}
        /\ slot[p].uid = slot[q].uid /\ slot[p].arg = slot[q].arg
        /\ ValidRating(slot[p].val) /\ ValidRating(slot[q].val)
        /\ slot[p].val # slot[q].val

\* C3: every submitRating with a valid value by an authenticated caller, racing or
\* not, is answered with a rating result (created or updated), never a server error.
C3_AtomicUpsert ==
    (resp.op = "rate" /\ ValidRating(resp.val)) => resp.status \in {200, 201}

\* C4: an authenticated submitRating with a value below 1 or above 5 is answered 400
\* in the step that receives it and leaves ratings unchanged; no such value is ever
\* carried to a write.
C4_Step ==
    /\ (resp'.op = "rate" /\ resp'.status # 401 /\ OutOfRange(resp'.val)) =>
           (resp'.status = 400 /\ ratings' = ratings)
    /\ \A p \in Slots : slot'[p].op = "rate" => ~OutOfRange(slot'[p].val)

\* C4: a submitRating whose value is below 1 or above 5 is answered 400 and changes
\* no rating, whether or not a rating existed.
C4_OutOfRangeRejected == [][C4_Step]_vars

\* the value 0 was refused while a rating of the caller for that store exists
C4_Witness ==
    /\ resp.op = "rate" /\ resp.status = 400 /\ resp.val = Num(0)
    /\ RowsOf(resp.uid, resp.arg) # {}

\* C5: in every reachable state every stored rating is an integer in 1..5.
C5_IntegerRatings == \A r \in ratings : r.rating \in {10, 20, 30, 40, 50}

\* C6: the write of a valid submitRating(u, s, v) creates the row (value v,
\* created_at = updated_at) and goes on to signal created exactly when its lookup
\* found no rating for (u, s); otherwise it sets the row found to v and goes on to
\* signal updated.
C6_Step ==
    \A p \in Slots :
        (slot[p].op = "rate" /\ slot[p].pc = "write" /\ ValidRating(slot[p].val)
           /\ slot'[p] # slot[p]) =>
            IF slot[p].existing = 0
            THEN /\ slot'[p].pc = "read201"
                 /\ \E r \in ratings' \ ratings :
                        /\ r.user_id = slot[p].uid /\ r.store_id = slot[p].arg
                        /\ r.rating = slot[p].val.x10 /\ r.created_at = r.updated_at
            ELSE /\ slot'[p].pc = "read200"
                 /\ \E r \in ratings' : r.id = slot[p].existing /\ r.rating = slot[p].val.x10

\* C6: submitRating answers created (201, created_at = updated_at) exactly when the
\* caller had no rating for the store before the call, and updated (200) otherwise.
C6_CreatedIffAbsent == [][C6_Step]_vars

\* TRUE when avg is the mean of the ratings R (0, not NULL, when R is empty)
MeanIs(avg, R) ==
    /\ ~avg.null
    /\ IF R = {} THEN avg.num = 0
       ELSE avg.num * Cardinality(R) = avg.den * SumRating(R)

RatingsOfStore(sid) == {r \in ratings : r.store_id = sid}

\* C7: every read of the store aggregates (owner summary, store list) lists each
\* store it covers once, with avg_rating the mean of the ratings rows that exist for
\* the store at that moment (0, never NULL, when there is none) and rating_count
\* their number.
C7_AggregatesCurrent ==
    /\ (resp.op = "ownerSummary" /\ resp.status = 200) =>
        /\ Len(resp.body) = Cardinality({s \in stores : s.owner_id = resp.uid})
        /\ {resp.body[i].id : i \in DOMAIN resp.body}
             = {s.id : s \in {x \in stores : x.owner_id = resp.uid}}
        /\ \A i \in DOMAIN resp.body :
               /\ MeanIs(resp.body[i].avg_rating, RatingsOfStore(resp.body[i].id))
               /\ resp.body[i].rating_count = Cardinality(RatingsOfStore(resp.body[i].id))
    /\ (resp.op = "stores" /\ resp.status = 200) =>
        /\ Len(resp.body) = Cardinality(stores)
        /\ {resp.body[i].id : i \in DOMAIN resp.body} = {s.id : s \in stores}
        /\ \A i \in DOMAIN resp.body :
               MeanIs(resp.body[i].avg_rating, RatingsOfStore(resp.body[i].id))

\* the owner summary read 4.5 over two ratings, 4 and 5
C7_Witness ==
    /\ resp.op = "ownerSummary" /\ resp.status = 200
    /\ \E i \in DOMAIN resp.body :
           /\ resp.body[i].avg_rating = [null |-> FALSE, num |-> 45, den |-> 1]
           /\ resp.body[i].rating_count = 2
           /\ {r.rating : r \in RatingsOfStore(resp.body[i].id)} = {40, 50}

RatingsOfOwner(uid) ==
    {r \in ratings : \E s \in stores : s.owner_id = uid /\ s.id = r.store_id}

\* C8: in the admin's user list, the owner_rating of every user whose role is owner
\* is the mean of all ratings rows of all stores whose owner_id is that user (a mean
\* over ratings), and 0, not NULL, when there is no such row.
C8_OwnerAggregate ==
    (resp.op = "adminUsers" /\ resp.status = 200) =>
        /\ {resp.body[i].id : i \in DOMAIN resp.body} = {u.id : u \in users}
        /\ \A i \in DOMAIN resp.body :
               resp.body[i].role = "owner" =>
                   MeanIs(resp.body[i].owner_rating, RatingsOfOwner(resp.body[i].id))

\* an owner of two stores, one rated [4] and one rated [5, 5], reads 14/3: the mean
\* of the per-store means would be 4.5
C8_Witness ==
    /\ resp.op = "adminUsers" /\ resp.status = 200
    /\ \E i \in DOMAIN resp.body :
           /\ resp.body[i].role = "owner"
           /\ resp.body[i].owner_rating = [null |-> FALSE, num |-> 140, den |-> 3]
           /\ \E s1, s2 \in stores :
                  /\ s1.owner_id = resp.body[i].id /\ s2.owner_id = resp.body[i].id
                  /\ Cardinality(RatingsOfStore(s1.id)) = 1
                  /\ Cardinality(RatingsOfStore(s2.id)) = 2

RequestsOf(u) == {r \in owner_requests : r.user_id = u}
ActiveRequest(u) == \E r \in RequestsOf(u) : r.status \in {"pending", "approved"}

\* C9: a requestOwnerUpgrade that passes the gate while the caller has a pending or
\* approved record is answered 400 (duplicate request) at once and changes nothing;
\* one whose INSERT runs while the caller has no record succeeds: it creates the
\* caller's only record, in status pending, and is answered 201; no INSERT succeeds
\* while the caller has a record, so a user succeeds once.
C9_Step ==
    /\ \A p \in Slots :
           (slot[p].op = "idle" /\ slot'[p].op = "requestOwner") =>
               ~ActiveRequest(slot'[p].uid)
    /\ (resp'.op = "requestOwner" /\ slot' = slot /\ resp'.status \notin {401, 403}) =>
           /\ resp'.status = 400
           /\ ActiveRequest(resp'.uid)
           /\ UNCHANGED <<users, stores, ratings, owner_requests, tokens>>
    /\ \A p \in Slots :
           (slot[p].op = "requestOwner" /\ slot[p].pc = "insert" /\ slot'[p] # slot[p]) =>
               /\ (slot'[p].pc = "read") <=> (RequestsOf(slot[p].uid) = {})
               /\ (slot'[p].pc = "read") =>
                      \E r \in owner_requests' :
                          /\ owner_requests' = owner_requests \cup {r}
                          /\ r \notin owner_requests
                          /\ r.user_id = slot[p].uid /\ r.status = "pending"
                          /\ \A r2 \in owner_requests' : r2.user_id = r.user_id => r2 = r
    /\ \A p \in Slots :
           (slot[p].op = "requestOwner" /\ slot[p].pc = "read" /\ slot'[p] # slot[p]) =>
               resp'.status = 201

\* C9: a request-owner call inserts a pending record only when the caller has none;
\* while a pending or approved record exists it is answered 400 and changes nothing.
C9_RequestOnce == [][C9_Step]_vars

\* a second request of a user whose record is pending was refused
C9_Witness ==
    /\ resp.op = "requestOwner" /\ resp.status = 400
    /\ \E r \in RequestsOf(resp.uid) : r.status = "pending"

\* C10: in every reachable state each user_id has at most one owner_requests row,
\* and no step deletes or replaces a row: its id, user_id and created_at stay.
C10_Step ==
    \A r \in owner_requests :
        \E r2 \in owner_requests' :
            r2.id = r.id /\ r2.user_id = r.user_id /\ r2.created_at = r.created_at

C10_Unique == \A r1, r2 \in owner_requests : r1.user_id = r2.user_id => r1 = r2

\* C10: at most one owner request per user in every state, and no step deletes or
\* replaces a request, concurrent requests included.
C10_OneRequestPerUser == [](C10_Unique) /\ [][C10_Step]_vars

\* of two requests of one user in flight together, the second INSERT was refused
C10_Witness ==
    /\ resp.op = "requestOwner" /\ resp.status = 500
    /\ \E r \in RequestsOf(resp.uid) : r.status = "pending"
    /\ \E p \in Slots : slot[p].op = "requestOwner" /\ slot[p].pc = "read"
                         /\ slot[p].uid = resp.uid

Decided == {"approved", "rejected"}
StatusOf(rows, id) == (CHOOSE r \in rows : r.id = id).status
RoleOf(rows, id) == (CHOOSE u \in rows : u.id = id).role

C11_Step ==
    \A p \in Slots :
        (/\ slot[p].op = "requestOwner" /\ slot[p].pc = "insert" /\ slot'[p] # slot[p]
         /\ \E r \in owner_requests : r.user_id = slot[p].uid /\ r.status = "rejected") =>
            /\ owner_requests' = owner_requests
            /\ resp'.status = 400

\* C11: a request-owner call by a user whose request is rejected leaves the record
\* rejected, creates no record and is answered 400 (duplicate request), not 500.
C11_RejectedBlocked == [][C11_Step]_vars

C12_Step ==
    /\ \A p \in Slots :
           (slot[p].op = "approve" /\ slot[p].pc = "status" /\ slot'[p].pc = "read") =>
               \E r \in owner_requests' :
                   /\ r.id = slot[p].arg /\ r.status = "approved"
                   /\ r.user_id = slot[p].user_id
                   /\ RoleOf(users', r.user_id) = "owner"
    /\ (/\ resp'.op \in {"approve", "reject"} /\ resp'.role = "admin" /\ slot' = slot
        /\ \E r \in owner_requests : r.id = resp'.arg /\ r.status = "approved") =>
           /\ resp'.status = 400 /\ resp'.msg = "Request is not pending"
           /\ users' = users /\ owner_requests' = owner_requests

\* C12: the approve of a pending request leaves the request approved and its user an
\* owner; an approve or reject received while the request is approved is answered
\* 400 "Request is not pending" and changes no request and no user.
C12_ApproveThenNotPending == [][C12_Step]_vars

\* a reject of an approved request, whose user is an owner, was answered 400
C12_Witness ==
    /\ resp.op = "reject" /\ resp.status = 400
    /\ \E r \in owner_requests :
           /\ r.id = resp.arg /\ r.status = "approved"
           /\ RoleOf(users, r.user_id) = "owner"

C13_Step ==
    \A p \in Slots :
        (/\ slot[p].op = "reject" /\ slot[p].pc = "status" /\ slot'[p].pc = "read"
         /\ StatusOf(owner_requests, slot[p].arg) = "pending") =>
            /\ \E r \in owner_requests' :
                   /\ r.id = slot[p].arg /\ r.status = "rejected"
                   /\ IF slot[p].val.type = "string" /\ slot[p].val.str # ""
                      THEN r.reason = slot[p].val.str
                      ELSE r.reason # ""
            /\ users' = users

\* C13: the reject of a pending request leaves it rejected with the reason given, or
\* with a non-empty default when the reason is missing or empty, and changes no role.
C13_RejectStoresReason == [][C13_Step]_vars

\* a reject without a reason was answered with the rejected request and its default
\* reason, and another with the reason it gave
C13_Witness ==
    /\ resp.op = "reject" /\ resp.status = 200 /\ resp.val \in {Undefined, Str("")}
    /\ resp.body # <<>>
    /\ resp.body[1].status = "rejected" /\ resp.body[1].reason = "Request rejected by admin"
    /\ RoleOf(users, resp.body[1].user_id) = "normal"

C14_Step ==
    \A r \in owner_requests :
        r.status \in Decided =>
            \E r2 \in owner_requests' : r2.id = r.id /\ r2.status = r.status

\* C14: once a request is approved or rejected its status never changes again, in
\* every interleaving of approve and reject calls.
C14_Terminal == [][C14_Step]_vars

BadKinds == {"missing", "invalid", "expired"}

C15_Step ==
    resp'.kind \in BadKinds =>
        /\ resp'.status = 401
        /\ resp'.kind \in {"invalid", "expired"} => resp'.msg = "Invalid token"
        /\ UNCHANGED <<users, stores, ratings, owner_requests, tokens, slot>>

\* C15: a request to a gated route without a token, with a token that does not
\* verify or with an expired one is answered 401, the same for an expired token as
\* for an invalid one, on role-restricted routes too, and changes nothing.
C15_Unauthenticated == [][C15_Step]_vars

\* an approve (an admin-only route) carrying an expired token was answered 401
C15_Witness ==
    /\ resp.op = "approve" /\ resp.kind = "expired" /\ resp.status = 401
    /\ \E r \in owner_requests : r.status = "pending"

\* the roles requireRole is given on each role-restricted route
AllowedRoles(op) ==
    IF op \in {"summary", "createUser", "adminUsers", "createStore", "adminStores",
               "ownerRequests", "allOwnerRequests", "approve", "reject"} THEN {"admin"}
    ELSE IF op \in {"requestOwner", "ownerRequestStatus"} THEN {"normal"}
    ELSE IF op \in {"ownerSummary", "storeRaters"} THEN {"owner"}
    ELSE AnyRole

C16_Step ==
    /\ (resp'.kind = "valid" /\ resp'.role \notin AllowedRoles(resp'.op)) =>
           /\ resp'.status = 403
           /\ UNCHANGED <<users, stores, ratings, owner_requests, tokens, slot>>
    /\ \A p \in Slots :
           slot'[p].op \notin {"idle", "signup"} =>
               slot'[p].role \in AllowedRoles(slot'[p].op)

\* C16: a request to a role-restricted route with a valid token whose role the route
\* does not allow is answered 403 and changes nothing; no such request is ever in
\* flight.
C16_Forbidden == [][C16_Step]_vars

\* a store creation (admin only) carrying the owner's token was answered 403
C16_Witness ==
    /\ resp.op = "createStore" /\ resp.kind = "valid" /\ resp.role = "owner"
    /\ resp.status = 403

OwnsStore(uid, sid) == \E x \in stores : x.id = sid /\ x.owner_id = uid

\* C17: a store-raters lookup by an owner-role caller for a store the caller does not
\* own, or for no store at all, is answered 403, never 404 and never 200; the raters
\* are returned (200) only for a store whose owner_id is the caller's id.
C17_RatersOnlyForOwner ==
    (resp.op = "storeRaters" /\ resp.kind = "valid" /\ resp.role = "owner") =>
        IF OwnsStore(resp.uid, resp.arg)
        THEN resp.status = 200
        ELSE resp.status = 403 /\ resp.body = <<>>

\* the owner asked for the raters of a store that another user owns, and of a store
\* that does not exist, and was answered 403
C17_Witness ==
    /\ resp.op = "storeRaters" /\ resp.role = "owner" /\ resp.status = 403
    /\ \E x \in stores : x.id = resp.arg /\ x.owner_id \notin {0, resp.uid}
    /\ \E r \in ratings : r.store_id = resp.arg

\* slot p ran its INSERT of a user in this step
InsertedUser(p) == slot[p].pc = "insert" /\ slot'[p].pc = "read"

C18_Step ==
    /\ \A u \in users :
           \E u2 \in users' :
               /\ u2.id = u.id
               /\ u2.role # u.role =>
                      /\ u2.role = "owner"
                      /\ \E p \in Slots :
                             /\ slot[p].op = "approve" /\ slot[p].role = "admin"
                             /\ slot[p].pc = "role" /\ slot'[p].pc = "status"
                             /\ slot[p].user_id = u.id
    /\ \A u2 \in users' :
           (~\E u \in users : u.id = u2.id) =>
               \E p \in Slots :
                   /\ InsertedUser(p)
                   /\ \/ slot[p].op = "signup" /\ u2.role = "normal"
                      \/ /\ slot[p].op = "createUser" /\ slot[p].role = "admin"
                         /\ u2.role = slot[p].val.str
                         /\ u2.role \in {"admin", "normal", "owner"}
    /\ (resp'.op = "createUser" /\ resp'.role = "admin"
          /\ resp'.val \notin {Str("admin"), Str("normal"), Str("owner")}) =>
           /\ resp'.status = 400 /\ resp'.msg = "Invalid role"
           /\ users' = users
    /\ \A p \in Slots :
           slot'[p].op = "createUser" =>
               slot'[p].val \in {Str("admin"), Str("normal"), Str("owner")}

\* C18: a new user gets role normal from signup, whatever role the body carries, or a
\* role in {admin, normal, owner} from an admin's user creation, which answers 400
\* and creates nothing for any other role; the role of an existing user changes only
\* in an admin's approve, to owner.
C18_RoleNeverSelfAssigned == [][C18_Step]_vars

\* a signup whose body asked for role admin was answered with a user of role normal
C18_Witness ==
    /\ resp.op = "signup" /\ resp.status = 201 /\ resp.val = Str("admin")
    /\ resp.body # <<>>
    /\ resp.body[1].role = "normal"

OwnerOnly == {"ownerSummary", "storeRaters"}
NormalOnly == {"requestOwner", "ownerRequestStatus"}

C19_Inv ==
    /\ (resp.op \in OwnerOnly /\ resp.kind = "valid" /\ resp.role = "normal") =>
           resp.status = 403
    /\ (resp.op \in NormalOnly /\ resp.kind = "valid" /\ resp.role = "normal") =>
           resp.status \notin {401, 403}
    /\ \A t \in tokens : t.role = "owner" => RoleOf(users, t.id) = "owner"

C19_Step ==
    /\ tokens \subseteq tokens'
    /\ (resp'.op = "login" /\ resp'.status = 200) =>
           /\ resp'.role = RoleOf(users, resp'.uid)
           /\ [id |-> resp'.uid, role |-> resp'.role] \in tokens'

C20_OwnerCallsSucceed ==
    (/\ resp.op \in OwnerOnly /\ resp.kind = "valid"
     /\ RoleOf(users, resp.uid) = "owner"
     /\ \E r \in owner_requests : r.user_id = resp.uid /\ r.status = "approved"
     /\ resp.op = "storeRaters" => OwnsStore(resp.uid, resp.arg)) =>
        resp.status = 200

\* the rows of a sequence, as a set
Range(sq) == {sq[i] : i \in DOMAIN sq}

\* C21: the queue an admin reads lists exactly the requests whose status is pending,
\* each once, in ascending created_at order.
C21_PendingQueue ==
    (resp.op = "ownerRequests" /\ resp.status = 200) =>
        /\ Range(resp.body) = {r \in owner_requests : r.status = "pending"}
        /\ \A i, j \in DOMAIN resp.body : resp.body[i] = resp.body[j] => i = j
        /\ \A i, j \in DOMAIN resp.body :
               i < j => resp.body[i].created_at <= resp.body[j].created_at

\* the queue was read with two pending requests made at different times
C21_Witness ==
    /\ resp.op = "ownerRequests" /\ resp.status = 200
    /\ Cardinality(DOMAIN resp.body) = 2
    /\ resp.body[1].created_at < resp.body[2].created_at

\* slot p runs a write of an approve or a reject in this step
DecideWrite(p) ==
    /\ slot[p].op \in {"approve", "reject"} /\ slot[p].pc \in {"role", "status"}
    /\ slot'[p] # slot[p]

C22_Step ==
    /\ \A p \in Slots :
           DecideWrite(p) => StatusOf(owner_requests, slot[p].arg) = "pending"
    /\ \A p \in Slots :
           (slot[p].op \in {"approve", "reject"} /\ slot[p].pc = "read"
              /\ slot'[p] # slot[p]) =>
               /\ resp'.status = 200
               /\ resp'.body[1].status = (IF slot[p].op = "approve" THEN "approved"
                                          ELSE "rejected")

\* C22: of the approves and rejects of one pending request that run interleaved, one
\* takes effect: a call writes only while the request is still pending, and a call
\* answered 200 is answered with the status it set.
C22_OneDecisionWins == [][C22_Step]_vars

\* C26: in every reachable state a request with a stored reason is rejected.
C26_ReasonOnlyOnRejected ==
    \A r \in owner_requests : r.reason # "" => r.status = "rejected"

\* C27: in every reachable state a user who has a request is an owner exactly when
\* the request is approved.
C27_OwnerIffApproved ==
    \A r \in owner_requests :
        RoleOf(users, r.user_id) = "owner" <=> r.status = "approved"

C28_Step ==
    /\ \A u \in users :
           RoleOf(users', u.id) # u.role =>
               /\ u.role = "normal" /\ RoleOf(users', u.id) = "owner"
               /\ \E p \in Slots : slot[p].op = "approve" /\ slot[p].pc = "role"
                                     /\ slot[p].user_id = u.id /\ slot'[p].pc = "status"
    /\ \A r \in owner_requests' :
           r \notin owner_requests /\ (~\E r0 \in owner_requests : r0.id = r.id) =>
               RoleOf(users, r.user_id) = "normal"
    /\ \A p \in Slots :
           (slot[p].op = "approve" /\ slot[p].pc = "role" /\ slot'[p].pc = "status") =>
               RoleOf(users, slot[p].user_id) \in {"normal", "owner"}

\* C28: the only change of an existing user's role is from normal to owner, in an
\* approve; a request is created only for a user whose stored role is normal then,
\* whatever the age of the token, so no approve writes the role of an admin.
C28_OnlyNormalToOwner == [][C28_Step]_vars

\* a second approve of the same request ran its UPDATE of users on a user who already
\* was an owner, and a token of role normal of that user is still in use
C28_Witness ==
    /\ \E p \in Slots : /\ slot[p].op = "approve" /\ slot[p].pc = "status"
                         /\ RoleOf(users, slot[p].user_id) = "owner"
                         /\ StatusOf(owner_requests, slot[p].arg) = "approved"
    /\ resp.op = "requestOwner" /\ resp.role = "normal" /\ resp.status = 400
    /\ RoleOf(users, resp.uid) = "owner"

\* slot p runs the UPDATE of a submitRating in this step, and the UPDATE succeeds
RatingUpdated(p) ==
    /\ slot[p].op = "rate" /\ slot[p].pc = "write" /\ slot[p].existing # 0
    /\ slot'[p].pc = "read200"

C24_Step ==
    \A p \in Slots :
        RatingUpdated(p) =>
            \A r \in ratings, r2 \in ratings' :
                (r.id = slot[p].existing /\ r2.id = r.id) => r2.updated_at > r.updated_at

\* C24: every successful update of a rating, also one that sets the value the row
\* already has and one that follows the previous write at once, leaves the row with
\* an updated_at strictly greater than it had.
C24_UpdatedAtIncreases == [][C24_Step]_vars

C25_Step ==
    \A p \in Slots :
        RatingUpdated(p) =>
            /\ Cardinality(ratings') = Cardinality(ratings)
            /\ \A r \in ratings : r.id # slot[p].existing => r \in ratings'
            /\ \A r \in ratings :
                   r.id = slot[p].existing =>
                       \E r2 \in ratings' :
                           /\ r2 = [r EXCEPT !.rating = r2.rating, !.updated_at = r2.updated_at]
                           /\ r2.rating = slot[p].val.x10
            /\ UNCHANGED <<users, stores, owner_requests>>

\* C25: a successful update of the rating of (u, s) changes the value and updated_at
\* of that row and nothing else: its created_at, user and store stay, the number of
\* rows stays, and the rows of every other pair stay as they are.
C25_UpdateTouchesOneRow == [][C25_Step]_vars

\* an update ran in a later second than the row's creation while the rating of
\* another user for the same store is stored
C25_Witness ==
    \E p \in Slots :
        /\ slot[p].op = "rate" /\ slot[p].pc = "read200"
        /\ SeedRating \in ratings
        /\ \E r \in ratings : /\ r.id = slot[p].existing /\ r.user_id # SeedRating.user_id
                               /\ r.created_at < r.updated_at
                               /\ r.rating # SeedRating.rating

C30_Step ==
    \A r \in ratings' :
        (~\E r0 \in ratings : r0.id = r.id) => \E s \in stores : s.id = r.store_id

\* C30: every row of ratings refers to a stored store: no step creates a row whose
\* store_id is not the id of a row of stores, so a submitRating for a store that does
\* not exist creates no row.
C30_RatingsReferToStores == [][C30_Step]_vars

\* the rows of R that belong to other users than u
RowsOfOthers(R, u) == {r \in R : r.user_id # u}

C29_Step ==
    /\ \A p \in Slots :
           (slot[p].op \in {"rate", "requestOwner"} /\ slot'[p] # slot[p]) =>
               /\ RowsOfOthers(ratings', slot[p].uid) = RowsOfOthers(ratings, slot[p].uid)
               /\ RowsOfOthers(owner_requests', slot[p].uid)
                    = RowsOfOthers(owner_requests, slot[p].uid)
    /\ \A p \in Slots :
           (slot[p].op = "idle" /\ (slot'[p].op \in {"rate", "requestOwner"}
                                     \/ resp'.op \in {"rate", "requestOwner"})) =>
               UNCHANGED <<ratings, owner_requests>>

\* C29: no step of a submitRating or of a request for the owner role, called with a
\* token of user u, adds, changes or removes a row of ratings or of owner_requests
\* whose user_id is not u, whatever storeId and body the call carries.
C29_WritesScopedToCaller == [][C29_Step]_vars

\* the caller's request was inserted beside the request of another user, after the
\* caller's rating was written
C29_Witness ==
    \E p \in Slots :
        /\ slot[p].op = "requestOwner" /\ slot[p].pc = "read"
        /\ \E r \in owner_requests : r.user_id = slot[p].uid /\ r.id = slot[p].inserted
        /\ RowsOfOthers(owner_requests, slot[p].uid) # {}
        /\ \E r \in ratings : r.user_id = slot[p].uid

\* the tables that submitRating, approve and reject write
Db == [users |-> users, ratings |-> ratings, owner_requests |-> owner_requests]

\* the slot record s is about to run an awaited write
InWrite(s) ==
    \/ s.op = "rate" /\ s.pc = "write"
    \/ s.op \in {"approve", "reject"} /\ s.pc \in {"role", "status"}

\* the tables after the awaited write that s is about to run, at clock t
StepOf(db, s, t) ==
    IF s.op = "rate" THEN
        IF s.existing # 0 THEN
            IF RatingColumnOk(s.val)
            THEN [db EXCEPT !.ratings = RatingUpdate(db.ratings, s.existing, s.val, t)]
            ELSE db
        ELSE IF RatingInsertOk(db.ratings, s.uid, s.arg, s.val)
             THEN [db EXCEPT !.ratings = RatingInsert(db.ratings, s.uid, s.arg, s.val, t)]
             ELSE db
    ELSE IF s.op = "approve" /\ s.pc = "role" THEN
        [db EXCEPT !.users = UserSetOwner(db.users, s.user_id)]
    ELSE IF s.op = "approve" THEN
        [db EXCEPT !.owner_requests = RequestApprove(db.owner_requests, s.arg, t)]
    ELSE
        [db EXCEPT !.owner_requests =
             RequestReject(db.owner_requests, s.arg, ReasonOrDefault(s.val), t)]

\* the tables after all the writes that s still has to run
RunOf(db, s, t) ==
    IF s.op = "approve" /\ s.pc = "role"
    THEN StepOf(StepOf(db, s, t), [s EXCEPT !.pc = "status"], t)
    ELSE StepOf(db, s, t)

\* the answer of s when its writes run on the tables dbw and its last SELECT reads
\* the tables dbr
ResultOf(dbw, dbr, s) ==
    IF s.op = "rate" THEN
        IF s.existing # 0 THEN
            IF RatingColumnOk(s.val)
            THEN [status |-> 200, body |-> RatingSelectRow(dbr.ratings, s.existing)]
            ELSE [status |-> 500, body |-> <<>>]
        ELSE IF RatingInsertOk(dbw.ratings, s.uid, s.arg, s.val)
             THEN [status |-> 201, body |-> RatingSelectRow(dbr.ratings, NextId(dbw.ratings))]
             ELSE [status |-> 500, body |-> <<>>]
    ELSE [status |-> 200, body |-> RequestSelectRow(dbr.owner_requests, s.arg)]

\* two calls in flight on different keys: two ratings of different (user, store)
\* pairs, or two decisions on different requests
DifferentKeys(s1, s2) ==
    \/ /\ s1.op = "rate" /\ s2.op = "rate"
       /\ <<s1.uid, s1.arg>> # <<s2.uid, s2.arg>>
    \/ /\ s1.op \in {"approve", "reject"} /\ s2.op \in {"approve", "reject"}
       /\ s1.arg # s2.arg

\* a rating row, and an answer, without the AUTOINCREMENT id
NoId(r) == [user_id |-> r.user_id, store_id |-> r.store_id, rating |-> r.rating]

DbNoIds(db) ==
    [db EXCEPT !.ratings = {[user_id |-> r.user_id, store_id |-> r.store_id,
                             rating |-> r.rating, created_at |-> r.created_at,
                             updated_at |-> r.updated_at] : r \in db.ratings}]

ResultNoIds(s, res) ==
    IF s.op = "rate" THEN [res EXCEPT !.body = [i \in DOMAIN res.body |-> NoId(res.body[i])]]
    ELSE res

\* every order of the writes and last reads of s1 and s2, started from db
FinalDbs(db, s1, s2, t) ==
    {RunOf(RunOf(db, s1, t), s2, t), RunOf(RunOf(db, s2, t), s1, t)}

\* the answers s1 can get: alone before s2, alone after s2, and with the writes of s2
\* between its write and its last read
ResultsOf(db, s1, s2, t) ==
    {ResultOf(db, RunOf(db, s1, t), s1),
     ResultOf(RunOf(db, s2, t), RunOf(RunOf(db, s2, t), s1, t), s1),
     ResultOf(db, RunOf(RunOf(db, s1, t), s2, t), s1)}

C23_Commute ==
    \A p, q \in Slots :
        (p # q /\ InWrite(slot[p]) /\ InWrite(slot[q]) /\ DifferentKeys(slot[p], slot[q])) =>
            /\ Cardinality(FinalDbs(Db, slot[p], slot[q], now)) = 1
            /\ Cardinality(ResultsOf(Db, slot[p], slot[q], now)) = 1

C23_CommuteUpToIds ==
    \A p, q \in Slots :
        (p # q /\ InWrite(slot[p]) /\ InWrite(slot[q]) /\ DifferentKeys(slot[p], slot[q])) =>
            /\ Cardinality({DbNoIds(d) : d \in FinalDbs(Db, slot[p], slot[q], now)}) = 1
            /\ Cardinality({ResultNoIds(slot[p], x) :
                               x \in ResultsOf(Db, slot[p], slot[q], now)}) = 1

\* a step of a call in flight is the write, or the answer, computed above, and leaves
\* the rows of every other key as they are
C23_Step ==
    \A p \in Slots :
        /\ (InWrite(slot[p]) /\ slot'[p] # slot[p]) =>
               /\ Db' = StepOf(Db, slot[p], now)
               /\ slot[p].op = "rate" =>
                      {r \in ratings' : <<r.user_id, r.store_id>> # <<slot[p].uid, slot[p].arg>>}
                        = {r \in ratings : <<r.user_id, r.store_id>> # <<slot[p].uid, slot[p].arg>>}
               /\ slot[p].op # "rate" =>
                      /\ {r \in owner_requests' : r.id # slot[p].arg}
                           = {r \in owner_requests : r.id # slot[p].arg}
                      /\ {u \in users' : u.id # slot[p].user_id}
                           = {u \in users : u.id # slot[p].user_id}
        /\ (slot[p].op \in {"rate", "approve", "reject"} /\ ~InWrite(slot[p])
              /\ slot'[p] # slot[p]) =>
               /\ Db' = Db
               /\ resp'.status \in {200, 201}
               /\ resp'.body = IF slot[p].op = "rate"
                               THEN RatingSelectRow(ratings, IF slot[p].existing # 0
                                                             THEN slot[p].existing
                                                             ELSE slot[p].inserted)
                               ELSE RequestSelectRow(owner_requests, slot[p].arg)

\* C23: two submitRating calls on different (user, store) pairs, and two approve or
\* reject calls on different requests, are independent: however their steps are
\* interleaved, the tables and both answers end as they do when the calls run one
\* after the other, in either order.
C23_Independent == [](C23_Commute) /\ [][C23_Step]_vars

\* C23, up to row ids: the same, where two rating rows, or two answers, are the same
\* when they differ only in the AUTOINCREMENT id of a row the calls created.
C23_IndependentUpToIds == [](C23_CommuteUpToIds) /\ [][C23_Step]_vars

\* two users' first ratings of the same store have both been inserted, neither answered
C23_Witness ==
    \E p, q \in Slots :
        /\ p # q
        /\ slot[p].op = "rate" /\ slot[p].pc = "read201"
        /\ slot[q].op = "rate" /\ slot[q].pc = "read201"
        /\ slot[p].uid # slot[q].uid
        /\ RowsOf(slot[p].uid, slot[p].arg) # {} /\ RowsOf(slot[q].uid, slot[q].arg) # {}

====
